---- MODULE Spec2Model ----
(***************************************************************************)
(* Model of importlinter/domain/helpers.py: resolution of import           *)
(* expressions against an import graph, and reversible removal of the      *)
(* imports they denote.                                                    *)
(*                                                                         *)
(* Python strings that the code takes apart (module names, module          *)
(* expressions) are sequences of one-character strings, so that            *)
(* str.split, str.replace, str.join, re.match and string comparison are    *)
(* computed and not assumed.  Line contents are never taken apart and      *)
(* stay TLA+ strings.                                                      *)
(***************************************************************************)
EXTENDS Integers, Sequences, FiniteSets, TLC

VARIABLES graph, op, args, ret, exc, pre, base, readd

vars == <<graph, op, args, ret, exc, pre, base, readd>>

(***************************************************************************)
(* Bounds of the model.                                                    *)
(***************************************************************************)
\* longest list of direct imports handed to pop_imports
MaxImports == 2
\* longest batch of import expressions
MaxExprs == 2
\* longest list of detail records handed to add_imports by a caller
MaxAdd == 1

(***************************************************************************)
(* Python values and strings.                                              *)
(***************************************************************************)
PyStr(s) == [type |-> "str", value |-> s]
PyInt(n) == [type |-> "int", value |-> n]
PyNone == [type |-> "NoneType", value |-> 0]

isinstance(v, t) == v.type = t

\* code points of the characters that occur in the model's strings
Ord(ch) ==
    CASE ch = "*" -> 42
      [] ch = "." -> 46
      [] ch = "a" -> 97
      [] ch = "b" -> 98
      [] ch = "c" -> 99
      [] ch = "d" -> 100
      [] ch = "p" -> 112
      [] ch = "q" -> 113
      [] ch = "x" -> 120
      [] ch = "z" -> 122

\* s < t for Python strings: lexicographic by code point
RECURSIVE StrLess(_, _)
StrLess(s, t) ==
    IF t = <<>> THEN FALSE
    ELSE IF s = <<>> THEN TRUE
    ELSE IF Head(s) # Head(t) THEN Ord(Head(s)) < Ord(Head(t))
    ELSE StrLess(Tail(s), Tail(t))

\* "sub in s" for a one-character sub
Contains(s, ch) == \E i \in 1..Len(s) : s[i] = ch

\* s.split(sep): the parts between the separators, empty parts included
RECURSIVE split(_, _)
split(s, sep) ==
    IF ~Contains(s, sep) THEN <<s>>
    ELSE LET i == CHOOSE k \in 1..Len(s) :
                      s[k] = sep /\ \A j \in 1..(k - 1) : s[j] # sep
         IN  <<SubSeq(s, 1, i - 1)>> \o split(SubSeq(s, i + 1, Len(s)), sep)

\* s.replace(old, new) for a one-character old; new is a sequence
RECURSIVE replace(_, _, _)
replace(s, old, new) ==
    IF s = <<>> THEN <<>>
    ELSE (IF Head(s) = old THEN new ELSE <<Head(s)>>) \o replace(Tail(s), old, new)

\* sep.join(parts)
RECURSIVE join(_, _)
join(sep, parts) ==
    IF parts = <<>> THEN <<>>
    ELSE IF Len(parts) = 1 THEN parts[1]
    ELSE parts[1] \o sep \o join(sep, Tail(parts))

(***************************************************************************)
(* Regular expressions.  A pattern is a sequence of tokens: the anchors,   *)
(* the three pieces _to_pattern writes, and literal characters.            *)
(***************************************************************************)
BOL == "^"
EOL == "$"
ESCDOT == "\\."
\* [^\.]+ : one or more characters other than a dot
NOTDOTS == "[^\\.]+"
\* (?:\.[^\.]+)*? : zero or more groups of a dot and one or more non-dots
LAZYGROUPS == "(?:\\.[^\\.]+)*?"

\* positions k > j such that s[j..k-1] is a non-empty run without a dot
RunEnds(s, j) ==
    {k \in (j + 1)..(Len(s) + 1) : \A m \in j..(k - 1) : s[m] # "."}

\* whether tokens re[i..] match s[j..] (the match may stop before the end of
\* s unless EOL is among the tokens, as with re.match)
RECURSIVE MatchAt(_, _, _, _)
MatchAt(re, i, s, j) ==
    IF i > Len(re) THEN TRUE
    ELSE CASE re[i] = BOL -> j = 1 /\ MatchAt(re, i + 1, s, j)
           [] re[i] = EOL -> j = Len(s) + 1 /\ MatchAt(re, i + 1, s, j)
           [] re[i] = ESCDOT ->
                j <= Len(s) /\ s[j] = "." /\ MatchAt(re, i + 1, s, j + 1)
           [] re[i] = NOTDOTS ->
                \E k \in RunEnds(s, j) : MatchAt(re, i + 1, s, k)
           [] re[i] = LAZYGROUPS ->
                \/ MatchAt(re, i + 1, s, j)
                \/ /\ j <= Len(s)
                   /\ s[j] = "."
                   /\ \E k \in RunEnds(s, j + 1) : MatchAt(re, i, s, k)
           [] OTHER ->
                j <= Len(s) /\ s[j] = re[i] /\ MatchAt(re, i + 1, s, j + 1)

\* pattern.match(string)
match(re, s) == MatchAt(re, 1, s, 1)

(***************************************************************************)
(* _to_pattern                                                             *)
(***************************************************************************)
\* the translation of one part of the expression (the body of the loop)
pattern_part(part) ==
    IF part = <<"*">> THEN replace(part, "*", <<NOTDOTS>>)
    ELSE IF part = <<"*", "*">> THEN replace(part, "*", <<NOTDOTS, LAZYGROUPS>>)
    ELSE part

\* a variant: the end of the string is not anchored
_to_pattern_unanchored(expression) ==
    LET parts == split(expression, ".")
        pattern_parts == [k \in 1..Len(parts) |-> pattern_part(parts[k])]
    IN  <<BOL>> \o join(<<ESCDOT>>, pattern_parts)

_to_pattern(expression) ==
    LET parts == split(expression, ".")
        pattern_parts == [k \in 1..Len(parts) |-> pattern_part(parts[k])]
    IN  <<BOL>> \o join(<<ESCDOT>>, pattern_parts) \o <<EOL>>

(***************************************************************************)
(* Value objects of importlinter.domain.imports                            *)
(***************************************************************************)
Module(name) == [name |-> name]
ModuleExpression(expression) == [expression |-> expression]
ImportExpression(importer, imported) ==
    [importer |-> ModuleExpression(importer), imported |-> ModuleExpression(imported)]
DirectImport(importer, imported, line_number, line_contents) ==
    [importer |-> importer, imported |-> imported,
     line_number |-> line_number, line_contents |-> line_contents]

\* whether any part of the expression is a wildcard
has_wildcard_expression(expression) ==
    \E k \in 1..Len(split(expression.expression, ".")) :
        split(expression.expression, ".")[k] \in {<<"*">>, <<"*", "*">>}

(***************************************************************************)
(* The import graph (grimp.ImportGraph): the modules, and for every edge   *)
(* the non-empty list of its detail records.                               *)
(***************************************************************************)
EmptyDetails == [p \in {} |-> <<>>]

DetailedImport(importer, imported, line_number, line_contents) ==
    [importer |-> importer, imported |-> imported,
     line_number |-> line_number, line_contents |-> line_contents]

get_import_details(G, importer, imported) ==
    IF <<importer, imported>> \in DOMAIN G.details
    THEN G.details[<<importer, imported>>]
    ELSE <<>>

remove_import(G, importer, imported) ==
    [G EXCEPT !.details =
        [p \in (DOMAIN G.details) \ {<<importer, imported>>} |-> G.details[p]]]

add_import(G, importer, imported, line_number, line_contents) ==
    LET e == <<importer.value, imported.value>>
        d == DetailedImport(importer, imported, line_number, line_contents)
        old == get_import_details(G, importer.value, imported.value)
        new == IF \E k \in 1..Len(old) : old[k] = d THEN old ELSE Append(old, d)
    IN  [modules |-> G.modules \cup {importer.value, imported.value},
         details |-> [p \in (DOMAIN G.details) \cup {e} |->
                         IF p = e THEN new ELSE G.details[p]]]

(***************************************************************************)
(* module_expression_to_modules                                            *)
(***************************************************************************)
module_expression_to_modules(G, expression) ==
    IF ~has_wildcard_expression(expression) THEN {Module(expression.expression)}
    ELSE {Module(module) : module \in
            {m \in G.modules : match(_to_pattern(expression.expression), m)}}

(***************************************************************************)
(* list(a_set): the elements once each.  The iteration order of a Python   *)
(* set is left open by the language; every consumer in this module builds  *)
(* a set from the list again, so one enumeration is modelled.              *)
(***************************************************************************)
RECURSIVE list(_)
list(S) ==
    IF S = {} THEN <<>>
    ELSE LET x == CHOOSE y \in S : TRUE IN <<x>> \o list(S \ {x})

ToSet(s) == {s[k] : k \in 1..Len(s)}

(***************************************************************************)
(* import_expression_to_imports                                            *)
(***************************************************************************)
\* a variant: an expression matches only if every pair of the product has an edge
import_expression_to_imports_every_pair(G, expression) ==
    LET importers == module_expression_to_modules(G, expression.importer)
        importeds == module_expression_to_modules(G, expression.imported)
        product == importers \X importeds
        details(pr) == get_import_details(G, pr[1].name, pr[2].name)
        imports ==
            UNION {{DirectImport(Module(d.importer.value), Module(d.imported.value),
                                 d.line_number, d.line_contents) :
                        d \in ToSet(details(pr))} : pr \in product}
        matched == \A pr \in product : details(pr) # <<>>
    IN  IF ~matched THEN [exc |-> "MissingImport", ret |-> <<>>]
        ELSE [exc |-> "none", ret |-> list(imports)]

import_expression_to_imports(G, expression) ==
    LET importers == module_expression_to_modules(G, expression.importer)
        importeds == module_expression_to_modules(G, expression.imported)
        product == importers \X importeds
        details(pr) == get_import_details(G, pr[1].name, pr[2].name)
        imports ==
            UNION {{DirectImport(Module(d.importer.value), Module(d.imported.value),
                                 d.line_number, d.line_contents) :
                        d \in ToSet(details(pr))} : pr \in product}
        matched == \E pr \in product : details(pr) # <<>>
    IN  IF ~matched THEN [exc |-> "MissingImport", ret |-> <<>>]
        ELSE [exc |-> "none", ret |-> list(imports)]

(***************************************************************************)
(* import_expressions_to_imports                                           *)
(***************************************************************************)
import_expressions_to_imports(G, expressions) ==
    LET each == [k \in 1..Len(expressions) |->
                    import_expression_to_imports(G, expressions[k])]
    IN  IF \E k \in 1..Len(each) : each[k].exc # "none"
        THEN [exc |-> "MissingImport", ret |-> <<>>]
        ELSE [exc |-> "none",
              ret |-> list(UNION {ToSet(each[k].ret) : k \in 1..Len(each)})]

(***************************************************************************)
(* resolve_import_expressions                                              *)
(***************************************************************************)
RECURSIVE ResolveLoop(_, _, _, _)
ResolveLoop(G, expressions, resolved_imports, unresolved_expressions) ==
    IF expressions = <<>>
    THEN [exc |-> "none", ret |-> <<resolved_imports, unresolved_expressions>>]
    ELSE LET r == import_expression_to_imports(G, Head(expressions))
         IN  IF r.exc = "MissingImport"
             THEN ResolveLoop(G, Tail(expressions), resolved_imports,
                              unresolved_expressions \cup {Head(expressions)})
             ELSE ResolveLoop(G, Tail(expressions),
                              resolved_imports \cup ToSet(r.ret),
                              unresolved_expressions)

\* a variant: MissingImport is not caught
resolve_import_expressions_uncaught(G, expressions) ==
    IF \E k \in 1..Len(expressions) :
          import_expression_to_imports(G, expressions[k]).exc = "MissingImport"
    THEN [exc |-> "MissingImport", ret |-> <<{}, {}>>]
    ELSE ResolveLoop(G, expressions, {}, {})

resolve_import_expressions(G, expressions) == ResolveLoop(G, expressions, {}, {})

(***************************************************************************)
(* _dedupe_imports                                                         *)
(***************************************************************************)
\* the sort key (di.importer.name, di.imported.name), compared as a tuple
\* a variant: the sort key is (di.imported.name, di.importer.name)
KeyLessImportedFirst(x, y) ==
    \/ StrLess(x.imported.name, y.imported.name)
    \/ /\ x.imported.name = y.imported.name
       /\ StrLess(x.importer.name, y.importer.name)

KeyLess(x, y) ==
    \/ StrLess(x.importer.name, y.importer.name)
    \/ /\ x.importer.name = y.importer.name
       /\ StrLess(x.imported.name, y.imported.name)

RECURSIVE sorted(_)
sorted(S) ==
    IF S = {} THEN <<>>
    ELSE LET x == CHOOSE y \in S : \A z \in S \ {y} : ~KeyLess(z, y)
         IN  <<x>> \o sorted(S \ {x})

\* a variant: the metadata is kept, so only equal records are collapsed
_dedupe_imports_keeps_metadata(imports) ==
    sorted({imports[k] : k \in 1..Len(imports)})

_dedupe_imports(imports) ==
    LET imports_without_metadata ==
            {DirectImport(imports[k].importer, imports[k].imported, PyNone, PyNone) :
                k \in 1..Len(imports)}
    IN  sorted(imports_without_metadata)

(***************************************************************************)
(* pop_imports                                                             *)
(***************************************************************************)
\* a variant: the records of an edge replace, and do not extend, the result
RECURSIVE PopLoopKeepsLast(_, _, _)
PopLoopKeepsLast(G, imports_to_remove, removed_imports) ==
    IF imports_to_remove = <<>>
    THEN [graph |-> G, exc |-> "none", ret |-> removed_imports]
    ELSE LET import_to_remove == Head(imports_to_remove)
             import_details ==
                 get_import_details(G, import_to_remove.importer.name,
                                    import_to_remove.imported.name)
         IN  IF import_details = <<>>
             THEN [graph |-> G, exc |-> "MissingImport", ret |-> <<>>]
             ELSE PopLoopKeepsLast(remove_import(G, import_to_remove.importer.name,
                                                 import_to_remove.imported.name),
                                   Tail(imports_to_remove),
                                   import_details)

RECURSIVE PopLoop(_, _, _)
PopLoop(G, imports_to_remove, removed_imports) ==
    IF imports_to_remove = <<>>
    THEN [graph |-> G, exc |-> "none", ret |-> removed_imports]
    ELSE LET import_to_remove == Head(imports_to_remove)
             import_details ==
                 get_import_details(G, import_to_remove.importer.name,
                                    import_to_remove.imported.name)
         IN  IF import_details = <<>>
             THEN [graph |-> G, exc |-> "MissingImport", ret |-> <<>>]
             ELSE PopLoop(remove_import(G, import_to_remove.importer.name,
                                        import_to_remove.imported.name),
                          Tail(imports_to_remove),
                          removed_imports \o import_details)

\* a variant: every pair is looked up before any edge is removed
pop_imports_checks_first(G, imports) ==
    LET imports_to_remove == _dedupe_imports(imports)
    IN  IF \E k \in 1..Len(imports_to_remove) :
              get_import_details(G, imports_to_remove[k].importer.name,
                                 imports_to_remove[k].imported.name) = <<>>
        THEN [graph |-> G, exc |-> "MissingImport", ret |-> <<>>]
        ELSE PopLoop(G, imports_to_remove, <<>>)

pop_imports(G, imports) == PopLoop(G, _dedupe_imports(imports), <<>>)

(***************************************************************************)
(* pop_import_expressions                                                  *)
(***************************************************************************)
\* a variant: each expression is resolved and popped before the next is resolved
RECURSIVE PopOneByOne(_, _, _)
PopOneByOne(G, expressions, removed_imports) ==
    IF expressions = <<>>
    THEN [graph |-> G, exc |-> "none", ret |-> removed_imports]
    ELSE LET imports == import_expression_to_imports(G, Head(expressions))
         IN  IF imports.exc # "none"
             THEN [graph |-> G, exc |-> imports.exc, ret |-> <<>>]
             ELSE LET r == pop_imports(G, imports.ret)
                  IN  PopOneByOne(r.graph, Tail(expressions), removed_imports \o r.ret)

pop_import_expressions_one_by_one(G, expressions) == PopOneByOne(G, expressions, <<>>)

pop_import_expressions(G, expressions) ==
    LET imports == import_expressions_to_imports(G, expressions)
    IN  IF imports.exc # "none"
        THEN [graph |-> G, exc |-> imports.exc, ret |-> <<>>]
        ELSE pop_imports(G, imports.ret)

(***************************************************************************)
(* add_imports                                                             *)
(***************************************************************************)
\* a variant: the line number must be positive and the line text not blank
RECURSIVE AddLoopValidatesValues(_, _)
AddLoopValidatesValues(G, import_details) ==
    IF import_details = <<>> THEN [graph |-> G, exc |-> "none"]
    ELSE LET details == Head(import_details)
         IN  IF ~(/\ isinstance(details.importer, "str")
                  /\ isinstance(details.imported, "str")
                  /\ isinstance(details.line_number, "int")
                  /\ details.line_number.value > 0
                  /\ isinstance(details.line_contents, "str")
                  /\ details.line_contents.value # "")
             THEN [graph |-> G, exc |-> "AssertionError"]
             ELSE AddLoopValidatesValues(
                      add_import(G, details.importer, details.imported,
                                 details.line_number, details.line_contents),
                      Tail(import_details))

RECURSIVE AddLoop(_, _)
AddLoop(G, import_details) ==
    IF import_details = <<>> THEN [graph |-> G, exc |-> "none"]
    ELSE LET details == Head(import_details)
         IN  IF ~(/\ isinstance(details.importer, "str")
                  /\ isinstance(details.imported, "str")
                  /\ isinstance(details.line_number, "int")
                  /\ isinstance(details.line_contents, "str"))
             THEN [graph |-> G, exc |-> "AssertionError"]
             ELSE AddLoop(add_import(G, details.importer, details.imported,
                                     details.line_number, details.line_contents),
                          Tail(import_details))

add_imports(G, import_details) == AddLoop(G, import_details)

(***************************************************************************)
(* The names, expressions and records the operations are called with.      *)
(***************************************************************************)
pa == <<"p", ".", "a">>
pb == <<"p", ".", "b">>
pz == <<"p", ".", "z">>
qc == <<"q", ".", "c">>
qdd == <<"q", ".", "d", "d">>
pStar == <<"p", ".", "*">>
qStar == <<"q", ".", "*">>
StarStar == <<"*", "*">>

LineText == "import q"

\* the detail records of the analysed code base: p.a imports q.c on two
\* lines, p.a imports q.dd and p.b imports q.c on one line each
CodeBaseRecords ==
    <<DetailedImport(PyStr(pa), PyStr(qc), PyInt(1), PyStr(LineText)),
      DetailedImport(PyStr(pa), PyStr(qc), PyInt(2), PyStr(LineText)),
      DetailedImport(PyStr(pa), PyStr(qdd), PyInt(1), PyStr(LineText)),
      DetailedImport(PyStr(pb), PyStr(qc), PyInt(1), PyStr(LineText))>>

\* records a caller hands to add_imports: values out of range and values of
\* the wrong type
CallerRecords ==
    {DetailedImport(PyStr(pb), PyStr(qdd), PyInt(0), PyStr(LineText)),
     DetailedImport(PyStr(pb), PyStr(qdd), PyInt(-1), PyStr(LineText)),
     DetailedImport(PyStr(pb), PyStr(qdd), PyInt(1), PyStr("")),
     DetailedImport(PyStr(pb), PyStr(qdd), PyNone, PyStr(LineText)),
     DetailedImport(PyStr(pb), PyStr(qdd), PyInt(1), PyNone),
     DetailedImport(PyNone, PyStr(qdd), PyInt(1), PyStr(LineText)),
     DetailedImport(PyStr(pb), PyInt(3), PyInt(1), PyStr(LineText))}

\* direct imports a caller hands to pop_imports; q.c never imports p.a
CallerImports ==
    {DirectImport(Module(pa), Module(qc), PyNone, PyNone),
     DirectImport(Module(pa), Module(qc), PyInt(1), PyStr(LineText)),
     DirectImport(Module(pa), Module(qdd), PyNone, PyNone),
     DirectImport(Module(pb), Module(qc), PyNone, PyNone),
     DirectImport(Module(pb), Module(qdd), PyNone, PyNone),
     DirectImport(Module(qc), Module(pa), PyNone, PyNone)}

\* import expressions; p.z is in no graph
CallerExpressions ==
    {ImportExpression(pStar, qStar),
     ImportExpression(pa, qc),
     ImportExpression(pStar, StarStar),
     ImportExpression(pz, qc)}

\* the sequences over S of length at most n
SeqsUpTo(S, n) == UNION {[1..k -> S] : k \in 0..n}

EmptyGraph == [modules |-> {pa, pb, qc}, details |-> EmptyDetails]

\* module names and expressions for the expansion of module expressions
ExpandNames ==
    {<<"a">>, <<"a", "b">>,
     <<"a", ".", "c">>,
     <<"a", ".", "b", ".", "c">>,
     <<"a", ".", "d", ".", "c">>,
     <<"a", ".", "b", ".", "x", ".", "c">>,
     <<"a", ".", "b", "b", ".", "c">>,
     <<"x", ".", "a", ".", "b", ".", "c">>,
     <<"a", ".", "b", ".", "c", "d">>}

ExpandExpressions ==
    {ModuleExpression(<<"a", ".", "*", ".", "c">>),
     ModuleExpression(<<"a", ".", "*", "*", ".", "c">>),
     ModuleExpression(<<"*", "*">>),
     ModuleExpression(<<"*">>),
     ModuleExpression(<<"a", ".", "*">>),
     ModuleExpression(<<"*", ".", "*", ".", "c">>),
     ModuleExpression(<<"a", ".", "*", ".", "*", ".", "c">>),
     ModuleExpression(<<"a", ".", "b", ".", "c">>),
     ModuleExpression(<<"a", ".", "z">>)}

(***************************************************************************)
(* The state machine.  The code is synchronous and single-threaded: the    *)
(* caller makes one call at a time on its graph, reads what came back, and *)
(* goes on.  op is "none" between calls; after a call the state holds the  *)
(* call's name, arguments, result, the exception it raised and the graph   *)
(* it was made on.  base is the graph before the pop whose result the last *)
(* call added back.                                                        *)
(***************************************************************************)
Returned(name, a, r, e, G, b, again) ==
    /\ op' = name
    /\ args' = a
    /\ ret' = r
    /\ exc' = e
    /\ pre' = graph
    /\ graph' = G
    /\ base' = b
    /\ readd' = again

Init ==
    /\ \E S \in SUBSET ToSet(CodeBaseRecords) :
          graph = add_imports(EmptyGraph,
                              SelectSeq(CodeBaseRecords, LAMBDA r : r \in S)).graph
    /\ op = "none"
    /\ args = <<>>
    /\ ret = <<>>
    /\ exc = "none"
    /\ pre = graph
    /\ base = graph
    /\ readd = FALSE

InitExpand ==
    /\ \E M \in SUBSET ExpandNames : graph = [modules |-> M, details |-> EmptyDetails]
    /\ op = "none"
    /\ args = <<>>
    /\ ret = <<>>
    /\ exc = "none"
    /\ pre = graph
    /\ base = graph
    /\ readd = FALSE

ModuleExpressionToModules(expression) ==
    /\ op = "none"
    /\ Returned("module_expression_to_modules", expression,
                module_expression_to_modules(graph, expression), "none",
                graph, graph, FALSE)

ImportExpressionToImports(expression) ==
    /\ op = "none"
    /\ LET r == import_expression_to_imports(graph, expression)
       IN  Returned("import_expression_to_imports", expression, r.ret, r.exc,
                    graph, graph, FALSE)

ImportExpressionsToImports(expressions) ==
    /\ op = "none"
    /\ LET r == import_expressions_to_imports(graph, expressions)
       IN  Returned("import_expressions_to_imports", expressions, r.ret, r.exc,
                    graph, graph, FALSE)

ResolveImportExpressions(expressions) ==
    /\ op = "none"
    /\ LET r == resolve_import_expressions(graph, expressions)
       IN  Returned("resolve_import_expressions", expressions, r.ret, r.exc,
                    graph, graph, FALSE)

PopImports(imports) ==
    /\ op = "none"
    /\ LET r == pop_imports(graph, imports)
       IN  Returned("pop_imports", imports, r.ret, r.exc, r.graph, graph, FALSE)

PopImportExpressions(expressions) ==
    /\ op = "none"
    /\ LET r == pop_import_expressions(graph, expressions)
       IN  Returned("pop_import_expressions", expressions, r.ret, r.exc,
                    r.graph, graph, FALSE)

AddImports(import_details) ==
    /\ op = "none"
    /\ LET r == add_imports(graph, import_details)
       IN  Returned("add_imports", import_details, <<>>, r.exc, r.graph, graph, FALSE)

\* the caller's second step of
\*     import_details = pop_imports(graph, imports)
\*     add_imports(graph, import_details)
AddImportsBack ==
    /\ op = "pop_imports"
    /\ exc = "none"
    /\ LET r == add_imports(graph, ret)
       IN  /\ op' = "add_imports"
           /\ args' = ret
           /\ ret' = <<>>
           /\ exc' = r.exc
           /\ pre' = graph
           /\ graph' = r.graph
           /\ base' = pre
           /\ readd' = TRUE

\* the caller is done with the result of the last call
Continue ==
    /\ op # "none"
    /\ op' = "none"
    /\ args' = <<>>
    /\ ret' = <<>>
    /\ exc' = "none"
    /\ pre' = graph
    /\ base' = graph
    /\ readd' = FALSE
    /\ UNCHANGED graph

Next ==
    \/ \E x \in {e.importer : e \in CallerExpressions} : ModuleExpressionToModules(x)
    \/ \E e \in CallerExpressions : ImportExpressionToImports(e)
    \/ \E es \in SeqsUpTo(CallerExpressions, MaxExprs) : ImportExpressionsToImports(es)
    \/ \E es \in SeqsUpTo(CallerExpressions, MaxExprs) : ResolveImportExpressions(es)
    \/ \E es \in SeqsUpTo(CallerExpressions, MaxExprs) : PopImportExpressions(es)
    \/ \E is \in SeqsUpTo(CallerImports, MaxImports) : PopImports(is)
    \/ \E ds \in SeqsUpTo(CallerRecords, MaxAdd) : AddImports(ds)
    \/ AddImportsBack
    \/ Continue

Spec == Init /\ [][Next]_vars

NextExpand ==
    \/ \E x \in ExpandExpressions : ModuleExpressionToModules(x)
    \/ Continue

SpecExpand == InitExpand /\ [][NextExpand]_vars

(***************************************************************************)
(* Vocabulary of the properties, stated on segments, pairs and records     *)
(* and not through the regular expression or the loops of the code.        *)
(***************************************************************************)
Segments(name) == split(name, ".")

\* the expression has a wildcard, and every wildcard of it is a single "*"
OnlySingleWildcards(expression) ==
    LET ps == Segments(expression.expression)
    IN  /\ \E k \in 1..Len(ps) : ps[k] = <<"*">>
        /\ \A k \in 1..Len(ps) : ps[k] # <<"*", "*">>

\* same number of segments, and equal wherever the pattern has a literal
SegmentwiseMatch(pattern, name) ==
    LET ps == Segments(pattern)
        ns == Segments(name)
    IN  /\ Len(ps) = Len(ns)
        /\ \A k \in 1..Len(ps) : ps[k] = <<"*">> \/ ps[k] = ns[k]

Name_a_b_c == <<"a", ".", "b", ".", "c">>
Name_a_d_c == <<"a", ".", "d", ".", "c">>
Name_a_b_x_c == <<"a", ".", "b", ".", "x", ".", "c">>
Pattern_a_star_c == <<"a", ".", "*", ".", "c">>
Pattern_a_starstar_c == <<"a", ".", "*", "*", ".", "c">>

\* the pairs with an edge, and all detail records, of a graph
Edges(G) == DOMAIN G.details
AllRecords(G) == UNION {ToSet(G.details[p]) : p \in Edges(G)}
RecordsOf(G, p) == IF p \in Edges(G) THEN ToSet(G.details[p]) ELSE {}

AsDirectImport(d) ==
    [importer |-> [name |-> d.importer.value], imported |-> [name |-> d.imported.value],
     line_number |-> d.line_number, line_contents |-> d.line_contents]

\* the pairs of the cross product of the two expansions
CrossProduct(G, e) ==
    {<<i.name, j.name>> : i \in module_expression_to_modules(G, e.importer),
                          j \in module_expression_to_modules(G, e.imported)}

MatchedPairs(G, e) == CrossProduct(G, e) \cap Edges(G)

ExpectedImports(G, e) ==
    {AsDirectImport(d) :
        d \in {r \in AllRecords(G) :
                 <<r.importer.value, r.imported.value>> \in CrossProduct(G, e)}}

NoDuplicates(s) == \A j, k \in 1..Len(s) : s[j] = s[k] => j = k

\* (importer, imported) pairs in ascending order of the two names
PairLess(p, q) == StrLess(p[1], q[1]) \/ (p[1] = q[1] /\ StrLess(p[2], q[2]))

Ascending(P) ==
    CHOOSE s \in [1..Cardinality(P) -> P] :
        \A j, k \in 1..Cardinality(P) : j < k => PairLess(s[j], s[k])

RECURSIVE RecordsInOrder(_, _)
RecordsInOrder(G, pairs) ==
    IF pairs = <<>> THEN <<>>
    ELSE G.details[Head(pairs)] \o RecordsInOrder(G, Tail(pairs))

PairsOf(imports) ==
    {<<imports[k].importer.name, imports[k].imported.name>> : k \in 1..Len(imports)}

Without(G, pairs) ==
    [modules |-> G.modules,
     details |-> [p \in Edges(G) \ pairs |-> G.details[p]]]

(***************************************************************************)
(* C3                                                                      *)
(***************************************************************************)
\* C3: for a module expression whose only wildcards are "*",
\* module_expression_to_modules returns exactly the modules of the graph with
\* as many segments as the expression and the same literal segments.
C3_SingleLevelWildcard ==
    (op = "module_expression_to_modules" /\ OnlySingleWildcards(args))
        => ret = {Module(m) : m \in {n \in pre.modules :
                                        SegmentwiseMatch(args.expression, n)}}

C3_Witness ==
    /\ op = "module_expression_to_modules"
    /\ args = ModuleExpression(Pattern_a_star_c)
    /\ pre.modules = {Name_a_b_c, Name_a_d_c, Name_a_b_x_c}
    /\ ret = {Module(Name_a_b_c), Module(Name_a_d_c)}

(***************************************************************************)
(* C2                                                                      *)
(***************************************************************************)
\* a.<one or more segments>.c
IsAThroughC(name) ==
    LET ns == Segments(name)
    IN  Len(ns) >= 3 /\ ns[1] = <<"a">> /\ ns[Len(ns)] = <<"c">>

\* C2: "a.**.c" expands to exactly the modules a.<one or more segments>.c of
\* the graph, and "**" alone expands to every module of the graph.
C2_RecursiveWildcard ==
    /\ (op = "module_expression_to_modules"
            /\ args = ModuleExpression(Pattern_a_starstar_c))
        => ret = {Module(m) : m \in {n \in pre.modules : IsAThroughC(n)}}
    /\ (op = "module_expression_to_modules" /\ args = ModuleExpression(StarStar))
        => ret = {Module(m) : m \in pre.modules}

(***************************************************************************)
(* C4                                                                      *)
(***************************************************************************)
\* C4: import_expression_to_imports returns exactly one DirectImport for every
\* detail record of every edge of the cross product of the two expansions, and
\* raises MissingImport exactly when no pair of the cross product has an edge;
\* it never returns an empty list.
C4_CrossProduct ==
    op = "import_expression_to_imports"
        => /\ exc \in {"none", "MissingImport"}
           /\ exc = "MissingImport" <=> MatchedPairs(pre, args) = {}
           /\ exc = "none" => /\ ToSet(ret) = ExpectedImports(pre, args)
                              /\ NoDuplicates(ret)
                              /\ ret # <<>>

C4_Witness ==
    /\ op = "import_expression_to_imports"
    /\ args = ImportExpression(pStar, qStar)
    /\ Edges(pre) = {<<pa, qc>>, <<pb, qc>>}
    /\ exc = "none"
    /\ Len(ret) = 3

(***************************************************************************)
(* C7                                                                      *)
(***************************************************************************)
\* C7: resolve_import_expressions never raises; it returns the union of the
\* imports of the expressions that match an edge, and the set of the
\* expressions that match none.
C7_PartialResolution ==
    op = "resolve_import_expressions"
        => /\ exc = "none"
           /\ ret[2] = {e \in ToSet(args) : MatchedPairs(pre, e) = {}}
           /\ ret[1] = UNION {ExpectedImports(pre, e) :
                                 e \in {x \in ToSet(args) : MatchedPairs(pre, x) # {}}}

C7_Witness ==
    /\ op = "resolve_import_expressions"
    /\ args = <<ImportExpression(pz, qc), ImportExpression(pa, qc)>>
    /\ ret[2] = {ImportExpression(pz, qc)}
    /\ Cardinality(ret[1]) = 2

(***************************************************************************)
(* C8                                                                      *)
(***************************************************************************)
\* C8: if an expression of the batch matches no edge, pop_import_expressions
\* raises MissingImport and leaves the graph as it was; when every expression
\* matches, import_expressions_to_imports returns the union of the imports of
\* the expressions.
C8_StrictBatch ==
    /\ (op = "pop_import_expressions"
            /\ \E e \in ToSet(args) : MatchedPairs(pre, e) = {})
        => (exc = "MissingImport" /\ graph = pre)
    /\ (op = "import_expressions_to_imports"
            /\ \A e \in ToSet(args) : MatchedPairs(pre, e) # {})
        => /\ exc = "none"
           /\ ToSet(ret) = UNION {ExpectedImports(pre, e) : e \in ToSet(args)}

C8_Witness ==
    /\ op = "pop_import_expressions"
    /\ args = <<ImportExpression(pStar, qStar), ImportExpression(pz, qc)>>
    /\ Cardinality(Edges(pre)) = 3
    /\ exc = "MissingImport"

(***************************************************************************)
(* C10                                                                     *)
(***************************************************************************)
\* C10: when every expression of the batch matches an edge,
\* pop_import_expressions returns without an exception, and no edge is left
\* between any pair the batch resolved to.
C10_PopNeverFailsAfterResolution ==
    (op = "pop_import_expressions"
        /\ \A e \in ToSet(args) : MatchedPairs(pre, e) # {})
        => /\ exc = "none"
           /\ \A e \in ToSet(args) : MatchedPairs(pre, e) \cap Edges(graph) = {}

C10_Witness ==
    /\ op = "pop_import_expressions"
    /\ args = <<ImportExpression(pStar, qStar), ImportExpression(pa, qc)>>
    /\ Len(get_import_details(pre, pa, qc)) = 2
    /\ exc = "none"
    /\ Len(ret) >= 3

(***************************************************************************)
(* C9                                                                      *)
(***************************************************************************)
\* C9: a successful pop_imports removes the whole edge of every pair that
\* occurs in its argument and nothing else, and returns all detail records of
\* those edges, pair by pair in ascending order of (importer, imported).
C9_PairGranularity ==
    (op = "pop_imports" /\ exc = "none")
        => /\ PairsOf(args) \subseteq Edges(pre)
           /\ graph = Without(pre, PairsOf(args))
           /\ ret = RecordsInOrder(pre, Ascending(PairsOf(args)))

C9_Witness ==
    /\ op = "pop_imports"
    /\ exc = "none"
    /\ args = <<DirectImport(Module(pa), Module(qc), PyInt(1), PyStr(LineText)),
                DirectImport(Module(pa), Module(qc), PyNone, PyNone)>>
    /\ Len(ret) = 2

(***************************************************************************)
(* C1                                                                      *)
(***************************************************************************)
\* C1: after add_imports with exactly the list a successful pop_imports
\* returned, the graph has the modules, the edges and, on every edge, the set
\* of detail records it had before the pop.
C1_RoundTrip ==
    readd
        => /\ exc = "none"
           /\ graph.modules = base.modules
           /\ Edges(graph) = Edges(base)
           /\ \A p \in Edges(base) : RecordsOf(graph, p) = RecordsOf(base, p)

C1_Witness ==
    /\ readd
    /\ Cardinality(Edges(base)) = 3
    /\ Cardinality(Edges(pre)) = 1
    /\ Len(args) = 3

(***************************************************************************)
(* C6                                                                      *)
(***************************************************************************)
\* C6 as claimed: when pop_imports raises MissingImport the graph is as it
\* was before the call.
C6_PopIsAtomic ==
    (op = "pop_imports" /\ exc = "MissingImport") => graph = pre

\* C6, amended: when pop_imports raises MissingImport, some requested pair has
\* no edge, the edges of the requested pairs that come before the first such
\* pair in ascending order of (importer, imported) have been removed, and
\* nothing else has changed.
C6_PopFailsPartWay ==
    (op = "pop_imports" /\ exc = "MissingImport")
        => LET missing == PairsOf(args) \ Edges(pre)
               before == {p \in PairsOf(args) :
                             \A m \in missing : PairLess(p, m)}
           IN  /\ missing # {}
               /\ graph = Without(pre, before)
               /\ ret = <<>>

C6_Witness ==
    /\ op = "pop_imports"
    /\ exc = "MissingImport"
    /\ <<pa, qc>> \in Edges(pre)
    /\ <<pa, qc>> \notin Edges(graph)

(***************************************************************************)
(* C5                                                                      *)
(***************************************************************************)
WellTyped(d) ==
    /\ d.importer.type = "str"
    /\ d.imported.type = "str"
    /\ d.line_number.type = "int"
    /\ d.line_contents.type = "str"

\* a line number that is not positive, or a blank line text
OutOfRange(d) ==
    \/ d.line_number.type = "int" /\ d.line_number.value <= 0
    \/ d.line_contents.type = "str" /\ d.line_contents.value = ""

====
